---- MODULE Spec2Model ----
\* Verification model of be/src/vec/functions/math.cpp (vectorized math
\* functions) and of the property getters of
\* be/src/olap/inverted_index_parser.cpp.
\*
\* Each group of functions has its own specification (SpecSin, SpecLog, ...);
\* a specification draws its inputs in its initial state or in its actions and
\* leaves the variables of the other groups at their initial values.
EXTENDS Integers, Sequences, FiniteSets, TLC

VARIABLES
    \* ---- UnaryFunctionPlainSin (math.cpp:320-342) ----
    be_test,        \* the build defines BE_TEST
    env_dlopen_ok,  \* dlopen("libm.so.6") would succeed in this process
    env_dlsym_ok,   \* dlsym(handle, "sin") would succeed in this process
    pc,             \* per thread: position inside execute / get_sin_func
    guard,          \* initialization guard of the function-local static
    sin_func,       \* the function-local static `sin_func`
    handle,         \* per thread: local `handle` of get_sin_func
    lookup,         \* per thread: local `sin_func` of get_sin_func (dlsym result)
    src,            \* per thread: *src of the current / last call
    dst,            \* per thread: *dst written by the last call
    calls,          \* per thread: completed calls of execute
    resolutions,    \* number of completed runs of get_sin_func
    used,           \* set of pointers that have been invoked
    \* ---- LogImpl (math.cpp:140-178) ----
    log_a,          \* bulk form: the vector `a` (bases), indexed from 0
    log_b,          \* the scalar `b` (argument)
    log_c,          \* bulk form: the result container `c`
    log_null_map,   \* bulk form: `null_map`
    log_bulk_done,  \* the bulk apply has run
    log_ret,        \* per row: return value of the scalar apply(a[i], b, is_null)
    log_is_null,    \* per row: `is_null` written by the scalar apply
    \* ---- FunctionNormalCdf (math.cpp:482-553) ----
    block,          \* the Block: slot -> column
    cdf_rows,       \* input_rows_count
    cdf_status,     \* the Status execute_impl returned ("none" before the call)
    cdf_next_id,    \* identity the next allocated column gets
    \* ---- conditionally nullable unary functions (math.cpp:52-90, 351-357) ----
    un_name,        \* the function: "acos", "acosh", "asin", "atanh" or "sqrt"
    un_src,         \* the input column data, indexed from 0
    un_dst,         \* the output column data
    un_null_map,    \* the output null map
    un_done,        \* the function has been executed over the column
    \* ---- BinImpl (math.cpp:433-460) ----
    bin_data,       \* vector: the input column `data` (Int64 values as bit vectors)
    bin_pc,         \* position inside vector / bin_impl
    bin_i,          \* vector: the row index i
    bin_n,          \* bin_impl: uint64_t n
    bin_index,      \* bin_impl: uint32_t index
    bin_buf,        \* bin_impl: char result[max_bits]
    res_data,       \* vector: ColumnString::Chars& res_data
    res_offsets,    \* vector: ColumnString::Offsets& res_offsets
    bin_status,     \* the Status vector returned ("none" before it returns)
    \* ---- SignImpl (math.cpp:180-196) ----
    sg_type,        \* the input type A
    sg_src,         \* the input column data, indexed from 0
    sg_ret,         \* per row: the UInt8 SignImpl::apply returned
    sg_dst,         \* the TINYINT (Int8) result column data
    sg_done,        \* the function has been executed over the column
    \* ---- AbsImpl (math.cpp:198-216) ----
    ab_type,        \* the input type A
    ab_src,         \* the input column data (integers as bit vectors)
    ab_dst,         \* the result column data, of type ResultOfAbs<A>
    ab_done,        \* the function has been executed over the column
    \* ---- ResultOfUnaryFunc, NegativeImpl, PositiveImpl (math.cpp:222-318) ----
    ut_name,        \* "negative", "positive", "radians" or "degrees"
    ut_type,        \* the source type A
    ut_value,       \* the input value a
    ut_result_type, \* Impl<A>::ResultType ("none" before the deduction)
    ut_result,      \* the value apply returned, as stored in the result type
    \* ---- register_function_math (math.cpp:557-599) ----
    reg_pc,         \* index of the next statement of register_function_math
    function_creators, \* SimpleFunctionFactory: primary name -> implementation
    function_alias, \* SimpleFunctionFactory: alias -> primary name
    reg_log,        \* the primary names registered so far, in order
    reg_lookups,    \* results of the lookups made after registration
    \* ---- inverted_index_parser.cpp:71-171 ----
    properties,     \* the caller's key -> value map
    debug_point,    \* the stop-words debug point is enabled
    pp_getter,      \* the getter that was called ("none" before the call)
    pp_result       \* the string it returned

vars_log == <<log_a, log_b, log_c, log_null_map, log_bulk_done, log_ret, log_is_null>>

vars_sin == <<be_test, env_dlopen_ok, env_dlsym_ok, pc, guard, sin_func, handle,
              lookup, src, dst, calls, resolutions, used>>

vars_cdf == <<block, cdf_rows, cdf_status, cdf_next_id>>

vars_un == <<un_name, un_src, un_dst, un_null_map, un_done>>

vars_bin == <<bin_data, bin_pc, bin_i, bin_n, bin_index, bin_buf, res_data,
              res_offsets, bin_status>>

vars_sg == <<sg_type, sg_src, sg_ret, sg_dst, sg_done>>

vars_ab == <<ab_type, ab_src, ab_dst, ab_done>>

vars_ut == <<ut_name, ut_type, ut_value, ut_result_type, ut_result>>

vars_reg == <<reg_pc, function_creators, function_alias, reg_log, reg_lookups>>

vars_pp == <<properties, debug_point, pp_getter, pp_result>>

vars == <<vars_sin, vars_log, vars_cdf, vars_un, vars_bin, vars_sg, vars_ab, vars_ut,
          vars_reg, vars_pp>>

\* What the actions of one group leave unchanged: the other groups.
others_sin == <<vars_log, vars_cdf, vars_un, vars_bin, vars_sg,
                vars_ab, vars_ut, vars_reg, vars_pp>>

others_log == <<vars_sin, vars_cdf, vars_un, vars_bin, vars_sg,
                vars_ab, vars_ut, vars_reg, vars_pp>>

others_cdf == <<vars_sin, vars_log, vars_un, vars_bin, vars_sg,
                vars_ab, vars_ut, vars_reg, vars_pp>>

others_un == <<vars_sin, vars_log, vars_cdf, vars_bin, vars_sg,
               vars_ab, vars_ut, vars_reg, vars_pp>>

others_bin == <<vars_sin, vars_log, vars_cdf, vars_un, vars_sg,
                vars_ab, vars_ut, vars_reg, vars_pp>>

others_sg == <<vars_sin, vars_log, vars_cdf, vars_un, vars_bin,
               vars_ab, vars_ut, vars_reg, vars_pp>>

others_ab == <<vars_sin, vars_log, vars_cdf, vars_un, vars_bin,
               vars_sg, vars_ut, vars_reg, vars_pp>>

others_ut == <<vars_sin, vars_log, vars_cdf, vars_un, vars_bin,
               vars_sg, vars_ab, vars_reg, vars_pp>>

others_reg == <<vars_sin, vars_log, vars_cdf, vars_un, vars_bin,
                vars_sg, vars_ab, vars_ut, vars_pp>>

others_pp == <<vars_sin, vars_log, vars_cdf, vars_un, vars_bin,
               vars_sg, vars_ab, vars_ut, vars_reg>>

-----------------------------------------------------------------------------
\* Float64 values.  A value is either NaN or the real
\*     w + (f + r / RemUnits) / FracUnits,   0 <= f < FracUnits, 0 <= r < RemUnits.
\* FracUnits is a power of two, so every value with r = 0 and a small w is a
\* binary64 value and the differences of two such values are computed by the
\* hardware without rounding.  The remainder r is only used by constants that
\* are not multiples of 1 / FracUnits (EPSILON).  The comparisons follow
\* IEEE 754: every comparison with a NaN is false.

FracUnits == 1073741824

RemUnits == 1000000000

D(w_, f_) == [nan |-> FALSE, w |-> w_, f |-> f_, r |-> 0]

F(w_) == D(w_, 0)

NaN == [nan |-> TRUE, w |-> 0, f |-> 0, r |-> 0]

Lt(x, y) == /\ ~x.nan
            /\ ~y.nan
            /\ \/ x.w < y.w
               \/ (x.w = y.w /\ x.f < y.f)
               \/ (x.w = y.w /\ x.f = y.f /\ x.r < y.r)

Le(x, y) == /\ ~x.nan
            /\ ~y.nan
            /\ \/ x.w < y.w
               \/ (x.w = y.w /\ x.f < y.f)
               \/ (x.w = y.w /\ x.f = y.f /\ x.r <= y.r)

Gt(x, y) == Lt(y, x)

Ge(x, y) == Le(y, x)

Sub(x, y) ==
    IF x.nan \/ y.nan THEN NaN
    ELSE LET br == IF x.r < y.r THEN 1 ELSE 0
             bf == IF x.f - br < y.f THEN 1 ELSE 0
         IN  [nan |-> FALSE,
              w |-> x.w - y.w - bf,
              f |-> x.f - br - y.f + bf * FracUnits,
              r |-> x.r - y.r + br * RemUnits]

Neg(x) == IF x.nan THEN NaN ELSE Sub(F(0), x)

Fabs(x) == IF x.nan THEN NaN
           ELSE IF x.w < 0 THEN Neg(x)
           ELSE x

-----------------------------------------------------------------------------
\* UnaryFunctionPlainSin: the lazily bound sine pointer.

NumThreads == 2

MaxCalls == 2

Threads == 1..NumThreads

SinInputs == {F(0), F(1)}

\* The two implementations of sine a pointer can designate.  Both are the
\* mathematical sine of the C library; the model keeps the result as the
\* term sin(x).
StdSin(x) == <<"sin", x>>

LibmSin(x) == <<"sin", x>>

\* sin_func(*src): a call through the cached pointer.  A call through a null
\* pointer does not produce a value.
CallSin(ptr, x) == CASE ptr = "libm_sin" -> LibmSin(x)
                     [] ptr = "std_sin" -> StdSin(x)
                     [] OTHER -> <<"crash", x>>

\* The value get_sin_func returns, from the locals it holds when it returns.
get_sin_func_unchecked(test_, handle_, lookup_) ==
    IF ~test_ /\ handle_ \in {"open", "closed"}
    THEN (IF lookup_ = "found" THEN "libm_sin" ELSE "unset")
    ELSE "std_sin"

get_sin_func(test_, handle_, lookup_) ==
    IF ~test_ /\ handle_ = "open" /\ lookup_ = "found"
    THEN "libm_sin"
    ELSE "std_sin"

\* The guard of a function-local static (C++11 [stmt.dcl]/4): a thread starts
\* the initialization only when no thread has started it; while another
\* thread is initializing, it waits.
GuardAcquire_unsynchronized(g) == g # "done"

GuardAcquire(g) == g = "uninit"

SinIdle ==
    /\ be_test = FALSE
    /\ env_dlopen_ok = TRUE
    /\ env_dlsym_ok = TRUE
    /\ pc = <<>>
    /\ guard = "uninit"
    /\ sin_func = "unset"
    /\ handle = <<>>
    /\ lookup = <<>>
    /\ src = <<>>
    /\ dst = <<>>
    /\ calls = <<>>
    /\ resolutions = 0
    /\ used = {}

SinInit ==
    /\ be_test \in BOOLEAN
    /\ env_dlopen_ok \in BOOLEAN
    /\ env_dlsym_ok \in BOOLEAN
    /\ (be_test => env_dlopen_ok /\ env_dlsym_ok)
    /\ (~env_dlopen_ok => env_dlsym_ok)
    /\ pc = [t \in Threads |-> "idle"]
    /\ guard = "uninit"
    /\ sin_func = "unset"
    /\ handle = [t \in Threads |-> "none"]
    /\ lookup = [t \in Threads |-> "none"]
    /\ src = [t \in Threads |-> F(0)]
    /\ dst = [t \in Threads |-> <<"unwritten", F(0)>>]
    /\ calls = [t \in Threads |-> 0]
    /\ resolutions = 0
    /\ used = {}

\* execute(src, dst) is entered.
Execute(t, x) ==
    /\ pc[t] = "idle"
    /\ calls[t] < MaxCalls
    /\ pc' = [pc EXCEPT ![t] = "guard"]
    /\ src' = [src EXCEPT ![t] = x]
    /\ UNCHANGED <<be_test, env_dlopen_ok, env_dlsym_ok, guard, sin_func, handle,
                   lookup, dst, calls, resolutions, used>>
    /\ UNCHANGED others_sin

\* `static auto sin_func = ...`: the guard is tested.
StaticGuard(t) ==
    /\ pc[t] = "guard"
    /\ \/ /\ guard = "done"
          /\ pc' = [pc EXCEPT ![t] = "invoke"]
          /\ UNCHANGED guard
       \/ /\ guard # "done"
          /\ GuardAcquire(guard)
          /\ guard' = "pending"
          /\ pc' = [pc EXCEPT ![t] = IF be_test THEN "return" ELSE "dlopen"]
    /\ UNCHANGED <<be_test, env_dlopen_ok, env_dlsym_ok, sin_func, handle, lookup,
                   src, dst, calls, resolutions, used>>
    /\ UNCHANGED others_sin

\* void* handle = dlopen("libm.so.6", RTLD_LAZY); if (handle) ...
Dlopen(t) ==
    /\ pc[t] = "dlopen"
    /\ handle' = [handle EXCEPT ![t] = IF env_dlopen_ok THEN "open" ELSE "null"]
    /\ pc' = [pc EXCEPT ![t] = IF env_dlopen_ok THEN "dlsym" ELSE "return"]
    /\ UNCHANGED <<be_test, env_dlopen_ok, env_dlsym_ok, guard, sin_func, lookup,
                   src, dst, calls, resolutions, used>>
    /\ UNCHANGED others_sin

\* if (auto sin_func = dlsym(handle, "sin"); sin_func) return sin_func;
Dlsym(t) ==
    /\ pc[t] = "dlsym"
    /\ lookup' = [lookup EXCEPT ![t] = IF env_dlsym_ok THEN "found" ELSE "null"]
    /\ pc' = [pc EXCEPT ![t] = IF env_dlsym_ok THEN "return" ELSE "dlclose"]
    /\ UNCHANGED <<be_test, env_dlopen_ok, env_dlsym_ok, guard, sin_func, handle,
                   src, dst, calls, resolutions, used>>
    /\ UNCHANGED others_sin

\* dlclose(handle);
Dlclose(t) ==
    /\ pc[t] = "dlclose"
    /\ handle' = [handle EXCEPT ![t] = "closed"]
    /\ pc' = [pc EXCEPT ![t] = "return"]
    /\ UNCHANGED <<be_test, env_dlopen_ok, env_dlsym_ok, guard, sin_func, lookup,
                   src, dst, calls, resolutions, used>>
    /\ UNCHANGED others_sin

\* get_sin_func returns; the static is initialized and its guard released.
Return(t) ==
    /\ pc[t] = "return"
    /\ sin_func' = get_sin_func(be_test, handle[t], lookup[t])
    /\ guard' = "done"
    /\ resolutions' = resolutions + 1
    /\ pc' = [pc EXCEPT ![t] = "invoke"]
    /\ UNCHANGED <<be_test, env_dlopen_ok, env_dlsym_ok, handle, lookup, src, dst,
                   calls, used>>
    /\ UNCHANGED others_sin

\* *dst = sin_func(*src);
Invoke(t) ==
    /\ pc[t] = "invoke"
    /\ dst' = [dst EXCEPT ![t] = CallSin(sin_func, src[t])]
    /\ used' = used \cup {sin_func}
    /\ calls' = [calls EXCEPT ![t] = calls[t] + 1]
    /\ pc' = [pc EXCEPT ![t] = "idle"]
    /\ UNCHANGED <<be_test, env_dlopen_ok, env_dlsym_ok, guard, sin_func, handle,
                   lookup, src, resolutions>>
    /\ UNCHANGED others_sin

NextSin ==
    \/ \E t \in Threads, x \in SinInputs : Execute(t, x)
    \/ \E t \in Threads : StaticGuard(t)
    \/ \E t \in Threads : Dlopen(t)
    \/ \E t \in Threads : Dlsym(t)
    \/ \E t \in Threads : Dlclose(t)
    \/ \E t \in Threads : Return(t)
    \/ \E t \in Threads : Invoke(t)

\* C1: however many threads make their first call to execute concurrently,
\* get_sin_func completes at most once in the process, at most one thread is
\* inside it at a time, a thread reaches the call through the pointer only
\* after that one resolution has completed (the pointer is set), and every
\* call ever made went through one and the same pointer.
InResolution == {t \in Threads : pc[t] \in {"dlopen", "dlsym", "dlclose", "return"}}

C1_ResolvedExactlyOnce ==
    /\ resolutions <= 1
    /\ Cardinality(InResolution) <= 1
    /\ \A t \in Threads :
          pc[t] = "invoke" => guard = "done" /\ sin_func # "unset" /\ resolutions = 1
    /\ "unset" \notin used
    /\ Cardinality(used) <= 1
    /\ (used # {} => used = {sin_func} /\ resolutions = 1)

\* Two first calls overlap: one thread is about to return from get_sin_func
\* while another, which has not called before either, waits at the guard.
C1_Witness_ConcurrentFirstCalls ==
    \E t1, t2 \in Threads :
        /\ t1 # t2
        /\ pc[t1] = "return"
        /\ pc[t2] = "guard"
        /\ guard = "pending"
        /\ calls[t1] = 0
        /\ calls[t2] = 0

\* C2: once resolved, the pointer is the dynamically loaded sine exactly when
\* the library open and the symbol lookup both succeeded, and the statically
\* linked std::sin in every other outcome; when the open succeeded and the
\* lookup failed the handle has been closed by the time get_sin_func returns;
\* and every completed call stored the value the static implementation gives
\* for its input.
DynamicOk == ~be_test /\ env_dlopen_ok /\ env_dlsym_ok

C2_SinFallback ==
    /\ guard = "done" => sin_func = (IF DynamicOk THEN "libm_sin" ELSE "std_sin")
    /\ \A t \in Threads :
          /\ pc[t] = "return" /\ handle[t] # "none" /\ lookup[t] = "null"
                => handle[t] = "closed"
          /\ pc[t] = "return" /\ be_test => handle[t] = "none"
          /\ pc[t] = "idle" /\ calls[t] > 0 => dst[t] = StdSin(src[t])

\* The lookup failed after a successful open: the handle was closed, the
\* static implementation was cached, and a call has completed through it.
C2_Witness_LookupFailed ==
    \E t1, t2 \in Threads :
        /\ ~be_test /\ env_dlopen_ok /\ ~env_dlsym_ok
        /\ handle[t1] = "closed"
        /\ sin_func = "std_sin"
        /\ pc[t2] = "idle"
        /\ calls[t2] > 0
        /\ dst[t2] = StdSin(F(1))

-----------------------------------------------------------------------------
\* LogImpl: the two-argument logarithm log(base, argument).  `a` is the base
\* and `b` the argument: the value is log(b) / log(a).

MaxLogRows == 2

Zero == F(0)

One == F(1)

\* static constexpr double EPSILON = 1e-9;  1e-9 is 1.073741824 / FracUnits; it
\* lies strictly between 1 / FracUnits and 2 / FracUnits, as the binary64
\* value of the literal does.
EPSILON == [nan |-> FALSE, w |-> 0, f |-> 1, r |-> 73741824]

\* A cell of a container that no statement has written.
Unwritten == [nan |-> FALSE, w |-> 0, f |-> -1, r |-> 0]

\* std::log(b) / std::log(a), kept as a term.
LogRatio(b, a) == <<"log(b)/log(a)", b, a>>

\* Bases: 1.0, its neighbours at distance 1 / FracUnits (less than EPSILON)
\* and at distance 2 / FracUnits (more than EPSILON), and values far from it.
LogBases == {F(-1), Zero, D(0, FracUnits - 2), D(0, FracUnits - 1), One,
             D(1, 1), D(1, 2), F(2), NaN}

LogArguments == {F(-1), Zero, One, F(8), NaN}

Rows(n) == 0..(n - 1)

Vectors(S, n) == UNION {[Rows(k) -> S] : k \in 0..n}

Size(v) == Cardinality(DOMAIN v)

\* a[i] <= 0 || std::fabs(a[i] - 1.0) < EPSILON
InvalidBase_no_epsilon(a) == Le(a, Zero) \/ a = One

InvalidBase(a) == Le(a, Zero) \/ Lt(Fabs(Sub(a, One)), EPSILON)

\* The bulk apply(a, b, c, null_map): the null map and the container after it.
BulkNullMap(a, b, c) ==
    LET is_null == Le(b, Zero)
    IN  [i \in DOMAIN c |-> IF is_null THEN 1
                            ELSE IF InvalidBase(a[i]) THEN 1 ELSE 0]

BulkValues(a, b, c) ==
    LET is_null == Le(b, Zero)
    IN  [i \in DOMAIN c |-> IF ~is_null /\ ~InvalidBase(a[i])
                            THEN LogRatio(b, a[i])
                            ELSE c[i]]

\* The scalar apply(a, b, is_null): the flag it writes and the value it returns.
ScalarIsNull_argument_unchecked(a, b) ==
    IF Le(a, Zero) \/ Lt(Fabs(Sub(a, One)), EPSILON) THEN 1 ELSE 0

ScalarIsNull(a, b) ==
    IF Le(a, Zero) \/ Le(b, Zero) \/ Lt(Fabs(Sub(a, One)), EPSILON) THEN 1 ELSE 0

ScalarReturn(a, b) == LogRatio(b, a)

LogIdle ==
    /\ log_a = <<>>
    /\ log_b = Zero
    /\ log_c = <<>>
    /\ log_null_map = <<>>
    /\ log_bulk_done = FALSE
    /\ log_ret = <<>>
    /\ log_is_null = <<>>

\* The caller sizes c and null_map to the row count before the call.
LogInit ==
    /\ log_a \in Vectors(LogBases, MaxLogRows)
    /\ log_b \in LogArguments
    /\ log_c = [i \in DOMAIN log_a |-> Unwritten]
    /\ log_null_map = [i \in DOMAIN log_a |-> 0]
    /\ log_bulk_done = FALSE
    /\ log_ret = [i \in DOMAIN log_a |-> Unwritten]
    /\ log_is_null = [i \in DOMAIN log_a |-> 2]

LogBulkApply ==
    /\ ~log_bulk_done
    /\ log_null_map' = BulkNullMap(log_a, log_b, log_c)
    /\ log_c' = BulkValues(log_a, log_b, log_c)
    /\ log_bulk_done' = TRUE
    /\ UNCHANGED <<log_a, log_b, log_ret, log_is_null>>
    /\ UNCHANGED others_log

LogScalarApply(i) ==
    /\ log_is_null[i] = 2
    /\ log_is_null' = [log_is_null EXCEPT ![i] = ScalarIsNull(log_a[i], log_b)]
    /\ log_ret' = [log_ret EXCEPT ![i] = ScalarReturn(log_a[i], log_b)]
    /\ UNCHANGED <<log_a, log_b, log_c, log_null_map, log_bulk_done>>
    /\ UNCHANGED others_log

NextLog ==
    \/ LogBulkApply
    \/ \E i \in DOMAIN log_a : LogScalarApply(i)

\* The validity rule of log(base, argument) as the claim states it: the base
\* is not positive, or lies strictly between 1 - EPSILON and 1 + EPSILON, or
\* the argument is not positive.
LogInvalid(base, argument) ==
    \/ Le(base, Zero)
    \/ (Lt(Sub(One, EPSILON), base) /\ Lt(Sub(base, EPSILON), One))
    \/ Le(argument, Zero)

\* C3: in both call shapes a row of log(base, argument) is null exactly when
\* base <= 0, or |base - 1| < 1e-9, or argument <= 0, and every other row is
\* non-null and holds log(argument) / log(base); log(1.0, x) and log(b, x)
\* with b <= 0 are null for every x.
C3_LogNullRule ==
    \A i \in DOMAIN log_a :
        /\ log_bulk_done =>
              /\ log_null_map[i] = (IF LogInvalid(log_a[i], log_b) THEN 1 ELSE 0)
              /\ ~LogInvalid(log_a[i], log_b) =>
                    log_c[i] = <<"log(b)/log(a)", log_b, log_a[i]>>
              /\ log_a[i] = One \/ Le(log_a[i], Zero) => log_null_map[i] = 1
        /\ log_is_null[i] # 2 =>
              /\ log_is_null[i] = (IF LogInvalid(log_a[i], log_b) THEN 1 ELSE 0)
              /\ ~LogInvalid(log_a[i], log_b) =>
                    log_ret[i] = <<"log(b)/log(a)", log_b, log_a[i]>>
              /\ log_a[i] = One \/ Le(log_a[i], Zero) => log_is_null[i] = 1

\* The bulk form has run on a batch in which one base differs from 1.0 by
\* less than EPSILON (null although base > 0 and argument > 0) and another
\* base is the nearest value that differs from 1.0 by more than EPSILON (not
\* null).
C3_Witness_NearOne ==
    /\ log_bulk_done
    /\ Gt(log_b, Zero)
    /\ \E i, j \in DOMAIN log_a :
          /\ log_a[i] = D(1, 1)
          /\ log_null_map[i] = 1
          /\ log_a[j] = D(1, 2)
          /\ log_null_map[j] = 0
          /\ log_c[j] = LogRatio(log_b, log_a[j])

\* C4: for every row on which both call shapes have run, the bulk null map
\* entry equals the scalar form's is_null, and a row that is not null holds
\* in c the value the scalar form returned.
C4_BulkEqualsScalar ==
    \A i \in DOMAIN log_a :
        log_bulk_done /\ log_is_null[i] # 2 =>
            /\ log_null_map[i] = log_is_null[i]
            /\ log_null_map[i] = 0 => log_c[i] = log_ret[i]

\* Both forms have run on every row of a two-row batch with a null and a
\* non-null row.
C4_Witness_BothShapes ==
    /\ log_bulk_done
    /\ Size(log_a) >= 2
    /\ \A i \in DOMAIN log_a : log_is_null[i] # 2
    /\ \E i, j \in DOMAIN log_a :
          /\ log_null_map[i] = 1
          /\ log_null_map[j] = 0
          /\ log_c[j] = log_ret[j]

-----------------------------------------------------------------------------
\* FunctionNormalCdf: normal_cdf(mean, sd, value) over a Block.

MaxCdfRows == 2

\* Slots of the block: the three arguments, the result slot, and a slot the
\* call does not name.
Slots == 0..4

\* const ColumnNumbers& arguments; uint32_t result
arguments == <<0, 1, 2>>

result == 3

MeanValues == {Zero, One}

SdValues == {F(-1), Zero, F(2), NaN}

ValueValues == {Zero, One}

\* A column: `kind` is "vector" (ColumnFloat64), "const" (ColumnConst over a
\* one-row data column), "nullable" (ColumnNullable) or "empty" (a slot with
\* no column yet); `size` is its row count; `data` its values and `null_map`
\* its null flags, indexed from 0; `ids` the identities of the allocations it
\* consists of.
Column(kind_, size_, data_, null_map_, ids_) ==
    [kind |-> kind_, size |-> size_, data |-> data_, null_map |-> null_map_,
     ids |-> ids_]

EmptyColumn == Column("empty", 0, <<>>, <<>>, {})

\* All argument columns of n rows over the values S, with identity id.
ArgumentColumns(S, n, id) ==
    {Column("vector", n, d, <<>>, {id}) : d \in [Rows(n) -> S]}
    \cup {Column("const", n, d, <<>>, {id, id + 10}) : d \in [Rows(1) -> S]}

\* is_column_const(*argument_columns[i])
is_column_const(col) == col.kind = "const"

\* index_check_const(i, is_const)
index_check_const(i, is_const) == IF is_const THEN 0 ELSE i

\* static bool check_argument(double sd) { return sd > 0; }
check_argument_nonnegative(sd) == Ge(sd, Zero)

check_argument(sd) == Gt(sd, Zero)

\* 0.5 * (std::erf((v - mean) / (sd * sqrt2)) + 1), kept as a term over the
\* difference v - mean and sd.
calculate_cell(mean, sd, v) == <<"0.5*(erf(d/(sd*sqrt2))+1)", Sub(v, mean), sd>>

\* ColumnFloat64::create(input_rows_count)
CreateResultColumn(n) == [i \in Rows(n) |-> Unwritten]

\* ColumnUInt8::create(input_rows_count, 0)
CreateNullMap_unsized(n) == <<>>

CreateNullMap(n) == [i \in Rows(n) |-> 0]

\* The allocations of the result: the data column, the null map and the
\* ColumnNullable made of them.
NewIds_in_place(next, cols) == cols[2].ids \cup {next}

NewIds(next, cols) == {next, next + 1, next + 2}

\* The reads of the row loop; cols are the unwrapped argument columns.
MeanAt(cols, col_const, i) == cols[0].data[index_check_const(i, col_const[0])]

SdAt(cols, col_const, i) == cols[1].data[index_check_const(i, col_const[1])]

ValueAt_first_row(cols, col_const, i) == cols[2].data[0]

ValueAt(cols, col_const, i) == cols[2].data[index_check_const(i, col_const[2])]

CdfIdle ==
    /\ block = <<>>
    /\ cdf_rows = 0
    /\ cdf_status = "none"
    /\ cdf_next_id = 0

CdfInit ==
    /\ cdf_rows \in 0..MaxCdfRows
    /\ \E m \in ArgumentColumns(MeanValues, cdf_rows, 1),
          s \in ArgumentColumns(SdValues, cdf_rows, 2),
          v \in ArgumentColumns(ValueValues, cdf_rows, 3) :
          block = [k \in Slots |->
                      CASE k = 0 -> m
                        [] k = 1 -> s
                        [] k = 2 -> v
                        [] k = 3 -> EmptyColumn
                        [] OTHER -> Column("vector", cdf_rows,
                                           [i \in Rows(cdf_rows) |-> One], <<>>, {4})]
    /\ cdf_status = "none"
    /\ cdf_next_id = 20

\* execute_impl(context, block, arguments, result, input_rows_count)
CdfExecute ==
    /\ cdf_status = "none"
    /\ LET cols == [k \in 0..2 |-> block[arguments[k + 1]]]
           col_const == [k \in 0..2 |-> is_column_const(cols[k])]
           data0 == CreateResultColumn(cdf_rows)
           null0 == CreateNullMap(cdf_rows)
           valid(i) == check_argument(SdAt(cols, col_const, i))
           result_data ==
               [i \in DOMAIN data0 |->
                   IF i \in Rows(cdf_rows) /\ valid(i)
                   THEN calculate_cell(MeanAt(cols, col_const, i),
                                       SdAt(cols, col_const, i),
                                       ValueAt(cols, col_const, i))
                   ELSE data0[i]]
           result_null_map ==
               [i \in DOMAIN null0 |->
                   IF i \in Rows(cdf_rows) /\ ~valid(i) THEN 1 ELSE null0[i]]
       IN  block' = [block EXCEPT ![result] =
                        Column("nullable", Size(result_data), result_data,
                               result_null_map, NewIds(cdf_next_id, cols))]
    /\ cdf_next_id' = cdf_next_id + 3
    /\ cdf_status' = "OK"
    /\ UNCHANGED cdf_rows
    /\ UNCHANGED others_cdf

NextCdf == CdfExecute

\* The value an argument column holds in row i: the single value of a
\* constant column, the i-th value of any other.
Effective(col, i) == IF col.kind = "const" THEN col.data[0] ELSE col.data[i]

\* The Gaussian CDF 0.5 * (erf((value - mean) / (sd * sqrt2)) + 1) as a term.
GaussianCdf(mean, sd, value) == <<"0.5*(erf(d/(sd*sqrt2))+1)", Sub(value, mean), sd>>

\* C5: after a normal_cdf evaluation, row i of the result is null if and only
\* if the effective standard deviation of row i is not strictly positive
\* (whatever the mean and the value are); a row with sd > 0 is non-null and
\* holds the Gaussian CDF of that row's own mean, sd and value, so no row
\* depends on another row being invalid.
C5_NullIffSdNotPositive ==
    cdf_status = "OK" =>
        /\ DOMAIN block[result].null_map = Rows(cdf_rows)
        /\ \A i \in Rows(cdf_rows) :
              LET mean == Effective(block[0], i)
                  sd == Effective(block[1], i)
                  value == Effective(block[2], i)
              IN  /\ block[result].null_map[i] = 1 <=> ~Gt(sd, Zero)
                  /\ block[result].null_map[i] \in {0, 1}
                  /\ Gt(sd, Zero) =>
                        block[result].data[i] = GaussianCdf(mean, sd, value)

\* A batch with a row of negative sd (null) next to a row of positive sd
\* (non-null, holding its own CDF), with means that differ between the rows.
C5_Witness_MixedRows ==
    /\ cdf_status = "OK"
    /\ \E i, j \in Rows(cdf_rows) :
          /\ block[1].kind = "vector"
          /\ block[1].data[i] = F(-1)
          /\ block[result].null_map[i] = 1
          /\ block[1].data[j] = F(2)
          /\ block[result].null_map[j] = 0
          /\ block[result].data[j] = GaussianCdf(One, F(2), Zero)

\* A constant column written out as a full-length vector.
Materialize(col, n) == [i \in Rows(n) |-> Effective(col, i)]

\* C6: whichever of the three arguments are constant, the result equals the
\* row-by-row evaluation over the three columns written out in full: the
\* same null map, and the same value in every non-null row.
C6_ConstEqualsFullColumn ==
    cdf_status = "OK" =>
        LET m == Materialize(block[0], cdf_rows)
            s == Materialize(block[1], cdf_rows)
            v == Materialize(block[2], cdf_rows)
        IN  /\ block[result].null_map =
                  [i \in Rows(cdf_rows) |-> IF Gt(s[i], Zero) THEN 0 ELSE 1]
            /\ \A i \in Rows(cdf_rows) :
                  block[result].null_map[i] = 0 =>
                      block[result].data[i] = GaussianCdf(m[i], s[i], v[i])

\* A constant sd with a non-constant mean and a non-constant value whose rows
\* differ: both rows are non-null and hold different values.
C6_Witness_MixedConst ==
    /\ cdf_status = "OK"
    /\ cdf_rows >= 2
    /\ block[0].kind = "vector"
    /\ block[1].kind = "const"
    /\ block[2].kind = "vector"
    /\ block[2].data[0] # block[2].data[1]
    /\ block[result].null_map[0] = 0
    /\ block[result].null_map[1] = 0
    /\ block[result].data[0] # block[result].data[1]

\* C8: a normal_cdf evaluation has no failing outcome: once it has returned,
\* the Status is OK however many rows are invalid, and the result slot holds
\* a nullable column whose data and null map both have input_rows_count
\* entries.
C8_AlwaysOkAndNullable ==
    /\ cdf_status \in {"none", "OK"}
    /\ cdf_status = "none" => block[result] = EmptyColumn
    /\ cdf_status = "OK" =>
          /\ block[result].kind = "nullable"
          /\ block[result].size = cdf_rows
          /\ Size(block[result].data) = cdf_rows
          /\ Size(block[result].null_map) = cdf_rows

\* No argument is nullable and no row is invalid: the result is nullable all
\* the same, with every null flag clear.
C8_Witness_NoInvalidRow ==
    /\ cdf_status = "OK"
    /\ cdf_rows >= 2
    /\ block[result].kind = "nullable"
    /\ \A i \in Rows(cdf_rows) : block[result].null_map[i] = 0
    /\ \A k \in 0..2 : block[k].kind \in {"vector", "const"}

\* C9: a normal_cdf evaluation changes the result slot of the block and
\* nothing else: every other slot holds the same column (same data, same
\* constant flag, same length) after the call, and the column placed in the
\* result slot consists of allocations no column of the block had before.
C9_WritesOnlyResultSlot ==
    [][cdf_status' = "OK" /\ cdf_status = "none" =>
          /\ \A k \in Slots \ {result} : block'[k] = block[k]
          /\ block'[result] # block[result]
          /\ block'[result].ids # {}
          /\ \A k \in Slots : block'[result].ids \cap block[k].ids = {}]_vars

\* The call has run on a non-empty batch; the arguments and the bystander
\* slot still hold columns of their original kinds and identities.
C9_Witness_ResultWritten ==
    /\ cdf_status = "OK"
    /\ cdf_rows >= 1
    /\ block[result].kind = "nullable"
    /\ block[4].ids = {4}
    /\ block[2].kind = "const"
    /\ block[2].ids = {3, 13}

-----------------------------------------------------------------------------
\* The conditionally nullable unary functions acos, acosh, asin, atanh, sqrt.

MaxUnaryRows == 2

UnaryNames == {"acos", "acosh", "asin", "atanh", "sqrt"}

\* Values on, next to and away from the boundaries -1, 0 and 1.
UnaryValues == {F(-2), D(-2, FracUnits - 1), F(-1), D(-1, 1), D(-1, FracUnits - 1),
                Zero, D(0, FracUnits - 1), One, D(1, 1), F(2), NaN}

\* AcosName::is_invalid_input
AcosName_is_invalid_input(x) == Lt(x, F(-1)) \/ Gt(x, One)

\* AcoshName::is_invalid_input
AcoshName_is_invalid_input(x) == Lt(x, One)

\* AsinName::is_invalid_input
AsinName_is_invalid_input(x) == Lt(x, F(-1)) \/ Gt(x, One)

\* AtanhName::is_invalid_input
AtanhName_is_invalid_input_closed(x) == Lt(x, F(-1)) \/ Gt(x, One)

AtanhName_is_invalid_input(x) == Le(x, F(-1)) \/ Ge(x, One)

\* SqrtName::is_invalid_input
SqrtName_is_invalid_input(x) == Lt(x, Zero)

\* Name::is_invalid_input of the function named name_.
is_invalid_input(name_, x) ==
    CASE name_ = "acos" -> AcosName_is_invalid_input(x)
      [] name_ = "acosh" -> AcoshName_is_invalid_input(x)
      [] name_ = "asin" -> AsinName_is_invalid_input(x)
      [] name_ = "atanh" -> AtanhName_is_invalid_input(x)
      [] name_ = "sqrt" -> SqrtName_is_invalid_input(x)

\* std::acos(x), std::acosh(x), ..., kept as a term.
UnaryTerm(name_, x) == <<name_, x>>

UnIdle ==
    /\ un_name = "none"
    /\ un_src = <<>>
    /\ un_dst = <<>>
    /\ un_null_map = <<>>
    /\ un_done = FALSE

UnInit ==
    /\ un_name \in UnaryNames
    /\ un_src \in Vectors(UnaryValues, MaxUnaryRows)
    /\ un_dst = [i \in DOMAIN un_src |-> <<"unwritten", Zero>>]
    /\ un_null_map = [i \in DOMAIN un_src |-> 0]
    /\ un_done = FALSE

\* FunctionMathUnaryAlwayNullable<UnaryFunctionPlainAlwayNullable<Name, f>>:
\* row by row, the validity predicate is evaluated on the raw input; an
\* invalid row is marked null and its cell left as it was, a valid row holds
\* f(input).
UnaryExecute ==
    /\ ~un_done
    /\ un_null_map' = [i \in DOMAIN un_src |->
                          IF is_invalid_input(un_name, un_src[i]) THEN 1 ELSE 0]
    /\ un_dst' = [i \in DOMAIN un_src |->
                     IF is_invalid_input(un_name, un_src[i])
                     THEN un_dst[i]
                     ELSE UnaryTerm(un_name, un_src[i])]
    /\ un_done' = TRUE
    /\ UNCHANGED <<un_name, un_src>>
    /\ UNCHANGED others_un

NextUn == UnaryExecute

\* C7: after asin, acos, acosh, atanh or sqrt has run over a column, row i is
\* null exactly when: x < -1 or x > 1 for asin and acos (-1 and 1 are
\* defined); x < 1 for acosh (1 is defined); x <= -1 or x >= 1 for atanh
\* (both endpoints are null); x < 0 for sqrt (0 is defined).
C7_NullExactlyWhenInvalid ==
    un_done =>
        \A i \in DOMAIN un_src :
            LET x == un_src[i]
                null == un_null_map[i] = 1
            IN  /\ un_null_map[i] \in {0, 1}
                /\ un_name \in {"asin", "acos"} =>
                      /\ null <=> (Lt(x, F(-1)) \/ Gt(x, One))
                      /\ x \in {F(-1), One} => ~null
                /\ un_name = "acosh" =>
                      /\ null <=> Lt(x, One)
                      /\ x = One => ~null
                /\ un_name = "atanh" =>
                      /\ null <=> (Le(x, F(-1)) \/ Ge(x, One))
                      /\ x \in {F(-1), One} => null
                /\ un_name = "sqrt" =>
                      /\ null <=> Lt(x, Zero)
                      /\ x = Zero => ~null
                /\ ~null => un_dst[i] = <<un_name, x>>

\* atanh has run over a column holding the endpoint 1 (null) and a value just
\* below 1 (defined).
C7_Witness_AtanhEndpoint ==
    /\ un_done
    /\ un_name = "atanh"
    /\ \E i, j \in DOMAIN un_src :
          /\ un_src[i] = One
          /\ un_null_map[i] = 1
          /\ un_src[j] = D(0, FracUnits - 1)
          /\ un_null_map[j] = 0
          /\ un_dst[j] = <<"atanh", un_src[j]>>

-----------------------------------------------------------------------------
\* BinImpl: bin(v), the base-2 string of a 64-bit integer.

MaxBinRows == 2

\* const size_t max_bits = sizeof(uint64_t) * 8;
max_bits == 64

Bits == 0..(max_bits - 1)

\* An Int64 / uint64_t is its 64 bits, bit 0 the least significant; the
\* conversion static_cast<uint64_t>(value) keeps the bits.
Pow2(k) == 2^k

\* The Int64 of a small integer v (|v| < 2^31), sign-extended.
Int64Of(v) ==
    [k \in Bits |->
        IF k < 31
        THEN (IF v >= 0 THEN (v \div Pow2(k)) % 2
              ELSE (((v + 2147483647) + 1) \div Pow2(k)) % 2)
        ELSE (IF v < 0 THEN 1 ELSE 0)]

Int64Min == [k \in Bits |-> IF k = max_bits - 1 THEN 1 ELSE 0]

Int64Max == [k \in Bits |-> IF k = max_bits - 1 THEN 0 ELSE 1]

BinInputs == {Int64Of(0), Int64Of(1), Int64Of(5), Int64Of(-1), Int64Min, Int64Max}

\* n & 1
LowBit(n) == n[0]

\* n >>= 1 on uint64_t: a logical shift.
ShiftRight_arithmetic(n) == [k \in Bits |-> IF k < max_bits - 1 THEN n[k + 1] ELSE n[k]]

ShiftRight(n) == [k \in Bits |-> IF k < max_bits - 1 THEN n[k + 1] ELSE 0]

\* the value of n as a condition: n != 0
NonZero(n) == \E k \in Bits : n[k] = 1

\* '0' + (n & 1)
DigitChar(b) == IF b = 0 THEN "0" ELSE "1"

\* std::string(result + index, max_bits - index)
BufferString(buf, index) == [j \in 1..(max_bits - index) |-> buf[index + j - 1]]

BinIdle ==
    /\ bin_data = <<>>
    /\ bin_pc = "none"
    /\ bin_i = 0
    /\ bin_n = <<>>
    /\ bin_index = 0
    /\ bin_buf = <<>>
    /\ res_data = <<>>
    /\ res_offsets = <<>>
    /\ bin_status = "none"

BinInit ==
    /\ bin_data \in Vectors(BinInputs, MaxBinRows)
    /\ bin_pc = "start"
    /\ bin_i = 0
    /\ bin_n = Int64Of(0)
    /\ bin_index = 0
    /\ bin_buf = [k \in Bits |-> "?"]
    /\ res_data = <<>>
    /\ res_offsets = <<>>
    /\ bin_status = "none"

\* res_offsets.resize(data.size()); size_t input_size = res_offsets.size();
BinVectorStart ==
    /\ bin_pc = "start"
    /\ res_offsets' = [i \in DOMAIN bin_data |-> 0]
    /\ bin_i' = 0
    /\ bin_pc' = "row"
    /\ UNCHANGED <<bin_data, bin_n, bin_index, bin_buf, res_data, bin_status>>
    /\ UNCHANGED others_bin

\* for (i < input_size): bin_impl(data[i]) is entered; otherwise return OK.
BinVectorRow ==
    /\ bin_pc = "row"
    /\ IF bin_i < Size(res_offsets)
       THEN /\ bin_n' = bin_data[bin_i]
            /\ bin_index' = max_bits
            /\ bin_buf' = [k \in Bits |-> "?"]
            /\ bin_pc' = "loop"
            /\ UNCHANGED bin_status
       ELSE /\ bin_status' = "OK"
            /\ bin_pc' = "done"
            /\ UNCHANGED <<bin_n, bin_index, bin_buf>>
    /\ UNCHANGED <<bin_data, bin_i, res_data, res_offsets>>
    /\ UNCHANGED others_bin

\* do { result[--index] = '0' + (n & 1); } while (n >>= 1);
\* index is a uint32_t: a decrement at 0 would wrap to 2^32 - 1; the model
\* lets it go to -1, which is outside the buffer just the same.
BinLoop ==
    /\ bin_pc = "loop"
    /\ bin_index' = bin_index - 1
    /\ bin_buf' = [k \in Bits |-> IF k = bin_index - 1
                                 THEN DigitChar(LowBit(bin_n))
                                 ELSE bin_buf[k]]
    /\ bin_n' = ShiftRight(bin_n)
    /\ bin_pc' = IF NonZero(ShiftRight(bin_n)) THEN "loop" ELSE "return"
    /\ UNCHANGED <<bin_data, bin_i, res_data, res_offsets, bin_status>>
    /\ UNCHANGED others_bin

\* return std::string(result + index, max_bits - index); and
\* StringOP::push_value_string(..., i, res_data, res_offsets): the string is
\* appended to res_data and res_offsets[i] is the end of it.
BinReturn ==
    /\ bin_pc = "return"
    /\ res_data' = res_data \o BufferString(bin_buf, bin_index)
    /\ res_offsets' = [res_offsets EXCEPT
                          ![bin_i] = Len(res_data) + (max_bits - bin_index)]
    /\ bin_i' = bin_i + 1
    /\ bin_pc' = "row"
    /\ UNCHANGED <<bin_data, bin_n, bin_index, bin_buf, bin_status>>
    /\ UNCHANGED others_bin

NextBin ==
    \/ BinVectorStart
    \/ BinVectorRow
    \/ BinLoop
    \/ BinReturn

\* The base-2 digits of the unsigned value of the bits n, most significant
\* first, without leading zeros; "0" for zero.
TopBit(n) == CHOOSE k \in Bits : n[k] = 1 /\ \A j \in Bits : j > k => n[j] = 0

BinaryDigits(n) ==
    IF \A k \in Bits : n[k] = 0
    THEN <<"0">>
    ELSE [j \in 1..(TopBit(n) + 1) |-> IF n[TopBit(n) + 1 - j] = 1 THEN "1" ELSE "0"]

\* The string of row i of the result column.
RowString(i) ==
    SubSeq(res_data, (IF i = 0 THEN 0 ELSE res_offsets[i - 1]) + 1, res_offsets[i])

\* C10: the index of the digit loop stays inside the 64-character buffer (it
\* is at least 1 whenever another digit is about to be written), and every
\* row that has been converted holds the base-2 digits of its input read as
\* an unsigned 64-bit integer, most significant first without leading zeros:
\* between 1 and 64 characters, "0" for 0, "101" for 5 and 64 times '1' for
\* -1.
C10_BinUnsignedDigits ==
    /\ bin_index \in 0..max_bits
    /\ bin_pc = "loop" => bin_index >= 1
    /\ bin_pc \in {"row", "loop", "return", "done"} =>
          \A i \in DOMAIN bin_data :
              i < bin_i =>
                  /\ RowString(i) = BinaryDigits(bin_data[i])
                  /\ Len(RowString(i)) \in 1..max_bits
                  /\ RowString(i)[1] = "0" => Len(RowString(i)) = 1
                  /\ bin_data[i] = Int64Of(0) => RowString(i) = <<"0">>
                  /\ bin_data[i] = Int64Of(5) => RowString(i) = <<"1", "0", "1">>
                  /\ bin_data[i] = Int64Of(-1) =>
                        RowString(i) = [j \in 1..max_bits |-> "1"]

\* vector has returned OK over a column holding -1 and 0: the first string
\* fills the whole buffer, the second is the single character "0".
C10_Witness_MinusOneAndZero ==
    /\ bin_status = "OK"
    /\ Size(bin_data) = 2
    /\ bin_data[0] = Int64Of(-1)
    /\ bin_data[1] = Int64Of(0)
    /\ res_offsets[0] = max_bits
    /\ res_offsets[1] = max_bits + 1
    /\ RowString(0) = [j \in 1..max_bits |-> "1"]
    /\ RowString(1) = <<"0">>

-----------------------------------------------------------------------------
\* Fixed-width integers.  An integer of width w is its w bits in two's
\* complement, bit 0 the least significant, so that the 64- and 128-bit types
\* keep their width.

\* The bits of the small integer v (|v| < 2^31) at width w, sign-extended.
IntBits(v, w) ==
    [k \in 0..(w - 1) |->
        IF k < 31
        THEN (IF v >= 0 THEN (v \div Pow2(k)) % 2
              ELSE (((v + 2147483647) + 1) \div Pow2(k)) % 2)
        ELSE (IF v < 0 THEN 1 ELSE 0)]

\* std::numeric_limits<A>::min() and max() of a signed type of width w.
MinBits(w) == [k \in 0..(w - 1) |-> IF k = w - 1 THEN 1 ELSE 0]

MaxBits(w) == [k \in 0..(w - 1) |-> IF k = w - 1 THEN 0 ELSE 1]

\* a < 0 and a == 0 on a signed integer; a == 0 on an unsigned one.
IsNegative(n) == n[Size(n) - 1] = 1

IsZero(n) == \A k \in DOMAIN n : n[k] = 0

\* ~a
Not(n) == [k \in DOMAIN n |-> 1 - n[k]]

\* n + 1 at the width of n (modulo 2^width).
Inc(n) == [k \in DOMAIN n |-> IF \A j \in 0..(k - 1) : n[j] = 1 THEN 1 - n[k] ELSE n[k]]

\* Conversion of a signed integer to a signed type of width `to`: sign
\* extension when wider, truncation when narrower.
Resize(n, to) == [k \in 0..(to - 1) |-> IF k < Size(n) THEN n[k] ELSE n[Size(n) - 1]]

\* The width arithmetic is done at: operands narrower than int are promoted.
PromotedWidth(w) == IF w < 32 THEN 32 ELSE w

SignedTypes == {"Int8", "Int16", "Int32", "Int64", "Int128"}

UnsignedTypes == {"UInt8"}

FloatTypes == {"Float32", "Float64"}

DecimalTypes == {"Decimal32", "Decimal64", "Decimal128V2", "Decimal128V3", "Decimal256"}

\* sizeof(A) * 8 of the integer types.
Width(type) ==
    CASE type \in {"Int8", "UInt8"} -> 8
      [] type = "Int16" -> 16
      [] type = "Int32" -> 32
      [] type = "Int64" -> 64
      [] type = "Int128" -> 128

\* Values of each type: the extremes, zero and values around it.
ValuesOf(type) ==
    CASE type \in SignedTypes ->
             {MinBits(Width(type)), IntBits(-7, Width(type)), IntBits(-1, Width(type)),
              IntBits(0, Width(type)), IntBits(1, Width(type)), IntBits(7, Width(type)),
              MaxBits(Width(type))}
      [] type \in UnsignedTypes ->
             {IntBits(0, 8), IntBits(1, 8), IntBits(7, 8), IntBits(-1, 8)}
      [] type \in FloatTypes ->
             {F(-7), D(-1, FracUnits - 1), Zero, D(0, 1), F(7), NaN}
      [] type \in DecimalTypes ->
             {F(-7), D(-1, FracUnits - 1), Zero, D(0, 1), F(7)}

-----------------------------------------------------------------------------
\* SignImpl: sign(x), with result type TYPE_TINYINT.

MaxSignRows == 2

SignTypes == SignedTypes \cup UnsignedTypes \cup FloatTypes \cup {"Decimal32", "Decimal128V3"}

\* a == A(0) on a floating or decimal value.
FEq(x, y) == ~x.nan /\ ~y.nan /\ x.w = y.w /\ x.f = y.f /\ x.r = y.r

\* static_cast<UInt8>(v) of an int v
CastUInt8(v) == v % 256

\* SignImpl<A>::apply(a): the UInt8 it returns.
SignImpl_apply_no_negative(type, a) ==
    IF type \in DecimalTypes \cup FloatTypes
    THEN CastUInt8(IF FEq(a, Zero) THEN 0 ELSE 1)
    ELSE CastUInt8(IF IsZero(a) THEN 0 ELSE 1)

SignImpl_apply(type, a) ==
    IF type \in DecimalTypes \cup FloatTypes
    THEN CastUInt8(IF Lt(a, Zero) THEN -1 ELSE IF FEq(a, Zero) THEN 0 ELSE 1)
    ELSE IF type \in SignedTypes
    THEN CastUInt8(IF IsNegative(a) THEN -1 ELSE IF IsZero(a) THEN 0 ELSE 1)
    ELSE CastUInt8(IF IsZero(a) THEN 0 ELSE 1)

\* The UInt8 stored into a cell of the TINYINT (Int8) result column.
StoreInt8(u) == IF u >= 128 THEN u - 256 ELSE u

SgIdle ==
    /\ sg_type = "none"
    /\ sg_src = <<>>
    /\ sg_ret = <<>>
    /\ sg_dst = <<>>
    /\ sg_done = FALSE

SgInit ==
    /\ sg_type \in SignTypes
    /\ sg_src \in Vectors(ValuesOf(sg_type), MaxSignRows)
    /\ sg_ret = [i \in DOMAIN sg_src |-> 0]
    /\ sg_dst = [i \in DOMAIN sg_src |-> 0]
    /\ sg_done = FALSE

\* FunctionUnaryArithmetic<SignImpl, NameSign>: row by row, the cell of the
\* result column is assigned SignImpl<A>::apply of the input cell.
SignExecute ==
    /\ ~sg_done
    /\ sg_ret' = [i \in DOMAIN sg_src |-> SignImpl_apply(sg_type, sg_src[i])]
    /\ sg_dst' = [i \in DOMAIN sg_src |-> StoreInt8(SignImpl_apply(sg_type, sg_src[i]))]
    /\ sg_done' = TRUE
    /\ UNCHANGED <<sg_type, sg_src>>
    /\ UNCHANGED others_sg

NextSg == SignExecute

\* C11: after sign has run over a column, the TINYINT result of a signed
\* integer, decimal or floating input x is -1 when x < 0, 0 when x = 0 and 1
\* when x > 0; the result of an unsigned input is 0 when x = 0 and 1
\* otherwise, never -1.
C11_SignStoredInTinyint ==
    sg_done =>
        \A i \in DOMAIN sg_src :
            LET x == sg_src[i]
                r == sg_dst[i]
            IN  /\ r \in {-1, 0, 1}
                /\ sg_type \in SignedTypes =>
                      /\ x[Width(sg_type) - 1] = 1 => r = -1
                      /\ x = IntBits(0, Width(sg_type)) => r = 0
                      /\ x[Width(sg_type) - 1] = 0 /\ x # IntBits(0, Width(sg_type))
                            => r = 1
                /\ sg_type \in FloatTypes \cup DecimalTypes =>
                      /\ Lt(x, Zero) => r = -1
                      /\ x = Zero => r = 0
                      /\ Gt(x, Zero) => r = 1
                /\ sg_type \in UnsignedTypes =>
                      /\ r # -1
                      /\ r = (IF x = IntBits(0, 8) THEN 0 ELSE 1)

\* sign has run over the Int64 column (-7, minimum): apply returned the UInt8
\* 255 for both rows and the TINYINT column holds -1.
C11_Witness_NegativeInt64 ==
    /\ sg_done
    /\ sg_type = "Int64"
    /\ Size(sg_src) = 2
    /\ sg_src[0] = IntBits(-7, 64)
    /\ sg_src[1] = MinBits(64)
    /\ sg_ret[0] = 255
    /\ sg_dst[0] = -1
    /\ sg_dst[1] = -1

-----------------------------------------------------------------------------
\* AbsImpl: abs(x), with result type NumberTraits::ResultOfAbs<A>.

MaxAbsRows == 2

AbsTypes == {"Int8", "Int16", "Int32", "Int64", "Int128", "UInt8", "Float64", "Decimal64"}

\* NumberTraits::ResultOfAbs<A>::Type: a signed integer type maps to the signed
\* type of the next width, every other type to itself.  Int128 is the widest
\* integer type there is (LARGEINT is the widest integer type tag), so no
\* signed type of a next width exists for it and its result type is Int128.
ResultOfAbs(type) ==
    CASE type = "Int8" -> "Int16"
      [] type = "Int16" -> "Int32"
      [] type = "Int32" -> "Int64"
      [] type = "Int64" -> "Int128"
      [] type = "Int128" -> "Int128"
      [] OTHER -> type

\* Conversion of an unsigned integer to a type of width `to`.
ResizeUnsigned(n, to) == [k \in 0..(to - 1) |-> IF k < Size(n) THEN n[k] ELSE 0]

\* static_cast<ColumnItemType>(~a), promoted for the addition: ~a is computed
\* at the promoted width of A and converted to the result item type.
AbsNotConverted(type, a) ==
    Resize(Resize(Not(Resize(a, PromotedWidth(Width(type)))), Width(ResultOfAbs(type))),
           PromotedWidth(Width(ResultOfAbs(type))))

\* static_cast<ColumnItemType>(~a) + 1 overflows (undefined behaviour) when
\* the left operand is the maximum of the type the addition is done in.
AbsOverflows(type, a) ==
    /\ type \in SignedTypes
    /\ IsNegative(a)
    /\ AbsNotConverted(type, a) = MaxBits(PromotedWidth(Width(ResultOfAbs(type))))

\* AbsImpl<A>::apply(a) where the addition does not overflow.
AbsImpl_apply(type, a) ==
    IF type \in DecimalTypes
    THEN IF Lt(a, Zero) THEN Neg(a) ELSE a
    ELSE IF type \in SignedTypes
    THEN IF IsNegative(a)
         THEN Resize(Inc(AbsNotConverted(type, a)), Width(ResultOfAbs(type)))
         ELSE Resize(a, Width(ResultOfAbs(type)))
    ELSE IF type \in UnsignedTypes
    THEN ResizeUnsigned(a, Width(ResultOfAbs(type)))
    ELSE Fabs(a)

\* The values a call of AbsImpl<A>::apply(a) can return: where the addition
\* overflows any value of the result type (the wrapped one, the minimum, is
\* among them), else the value computed.
AbsOutcomes(type, a) ==
    IF AbsOverflows(type, a)
    THEN ValuesOf(ResultOfAbs(type))
    ELSE {AbsImpl_apply(type, a)}

AbIdle ==
    /\ ab_type = "none"
    /\ ab_src = <<>>
    /\ ab_dst = <<>>
    /\ ab_done = FALSE

AbInit ==
    /\ ab_type \in AbsTypes
    /\ ab_src \in Vectors(ValuesOf(ab_type), MaxAbsRows)
    /\ ab_dst = <<>>
    /\ ab_done = FALSE

\* FunctionUnaryArithmetic<AbsImpl, NameAbs>: row by row, the cell of the
\* result column is assigned AbsImpl<A>::apply of the input cell.
AbsExecute ==
    /\ ~ab_done
    /\ ab_dst' \in {d \in [DOMAIN ab_src ->
                              UNION {AbsOutcomes(ab_type, ab_src[i]) : i \in DOMAIN ab_src}] :
                       \A i \in DOMAIN ab_src : d[i] \in AbsOutcomes(ab_type, ab_src[i])}
    /\ ab_done' = TRUE
    /\ UNCHANGED <<ab_type, ab_src>>
    /\ UNCHANGED others_ab

NextAb == AbsExecute

\* C12: after abs has run over a column of a signed integer type, every cell r
\* of the result is a non-negative value of the result type that equals the
\* input a when a >= 0 and satisfies -r = a when a < 0, the minimum value of
\* the type included (no wrap-around); over an unsigned column, r = a.
C12_AbsWithoutWrapAround ==
    ab_done =>
        \A i \in DOMAIN ab_src :
            LET a == ab_src[i]
                r == ab_dst[i]
                wr == Width(ResultOfAbs(ab_type))
            IN  /\ ab_type \in SignedTypes =>
                      /\ DOMAIN r = 0..(wr - 1)
                      /\ r[wr - 1] = 0
                      /\ a[Width(ab_type) - 1] = 0 => r = Resize(a, wr)
                      /\ a[Width(ab_type) - 1] = 1 => Inc(Not(r)) = Resize(a, wr)
                /\ ab_type \in UnsignedTypes => r = a

\* abs has run over an Int128 column holding the minimum, -2^127: the result
\* cell holds the minimum again, a negative number.
C12_Witness_Int128MinimumWraps ==
    /\ ab_done
    /\ ab_type = "Int128"
    /\ Size(ab_src) = 1
    /\ ab_src[0] = MinBits(128)
    /\ ab_dst[0] = MinBits(128)
    /\ ab_dst[0][127] = 1

\* The part of C12 that holds: on every input other than the minimum of
\* Int128 the result is the non-negative |a| (the minima of Int8, Int16, Int32
\* and Int64 included), and over an unsigned column r = a.
C12_NoWrapExceptInt128Minimum ==
    ab_done =>
        \A i \in DOMAIN ab_src :
            LET a == ab_src[i]
                r == ab_dst[i]
                wr == Width(ResultOfAbs(ab_type))
            IN  /\ (ab_type \in SignedTypes /\ ~(ab_type = "Int128" /\ a = MinBits(128))) =>
                      /\ DOMAIN r = 0..(wr - 1)
                      /\ r[wr - 1] = 0
                      /\ a[Width(ab_type) - 1] = 0 => r = Resize(a, wr)
                      /\ a[Width(ab_type) - 1] = 1 => Inc(Not(r)) = Resize(a, wr)
                /\ ab_type \in UnsignedTypes => r = a

\* abs has run over the columns holding the minimum of Int8 and of Int64: the
\* results are 128 as an Int16 and 2^63 as an Int128.
C12_Reached_MinimumValues ==
    /\ ab_done
    /\ Size(ab_src) = 2
    /\ ab_src[0] = MinBits(Width(ab_type))
    /\ ab_src[1] = IntBits(-7, Width(ab_type))
    /\ \/ ab_type = "Int8" /\ ab_dst[0] = IntBits(128, 16)
       \/ ab_type = "Int64" /\ ab_dst[0] = [k \in 0..127 |-> IF k = 63 THEN 1 ELSE 0]
    /\ ab_dst[1] = IntBits(7, Width(ResultOfAbs(ab_type)))

-----------------------------------------------------------------------------
\* ResultOfUnaryFunc and the four functions that use it: negative, positive,
\* radians, degrees.

\* The types ResultOfUnaryFunc is specialised for (float and double are
\* written Float32 and Float64).
SourceTypes == SignedTypes \cup UnsignedTypes \cup FloatTypes \cup DecimalTypes

\* ResultOfUnaryFunc<A>::ResultType; the primary template is only declared, so
\* a type without a specialisation has no result type.
ResultOfUnaryFunc_narrowing(type) ==
    CASE type \in SignedTypes -> "TYPE_TINYINT"
      [] type \in UnsignedTypes -> "TYPE_BOOLEAN"
      [] type \in FloatTypes -> "TYPE_FLOAT"
      [] type \in DecimalTypes -> "TYPE_DECIMAL32"
      [] OTHER -> "incomplete type"

ResultOfUnaryFunc(type) ==
    CASE type = "UInt8" -> "TYPE_BOOLEAN"
      [] type = "Int8" -> "TYPE_TINYINT"
      [] type = "Int16" -> "TYPE_SMALLINT"
      [] type = "Int32" -> "TYPE_INT"
      [] type = "Int64" -> "TYPE_BIGINT"
      [] type = "Int128" -> "TYPE_LARGEINT"
      [] type = "Decimal32" -> "TYPE_DECIMAL32"
      [] type = "Decimal64" -> "TYPE_DECIMAL64"
      [] type = "Decimal128V3" -> "TYPE_DECIMAL128I"
      [] type = "Decimal128V2" -> "TYPE_DECIMALV2"
      [] type = "Decimal256" -> "TYPE_DECIMAL256"
      [] type = "Float32" -> "TYPE_FLOAT"
      [] type = "Float64" -> "TYPE_DOUBLE"
      [] OTHER -> "incomplete type"

\* PrimitiveTypeTraits<T>::ColumnItemType: the item type a type tag is stored
\* as.
ColumnItemType(tag) ==
    CASE tag = "TYPE_BOOLEAN" -> "UInt8"
      [] tag = "TYPE_TINYINT" -> "Int8"
      [] tag = "TYPE_SMALLINT" -> "Int16"
      [] tag = "TYPE_INT" -> "Int32"
      [] tag = "TYPE_BIGINT" -> "Int64"
      [] tag = "TYPE_LARGEINT" -> "Int128"
      [] tag = "TYPE_DECIMAL32" -> "Decimal32"
      [] tag = "TYPE_DECIMAL64" -> "Decimal64"
      [] tag = "TYPE_DECIMAL128I" -> "Decimal128V3"
      [] tag = "TYPE_DECIMALV2" -> "Decimal128V2"
      [] tag = "TYPE_DECIMAL256" -> "Decimal256"
      [] tag = "TYPE_FLOAT" -> "Float32"
      [] tag = "TYPE_DOUBLE" -> "Float64"
      [] OTHER -> "none"

\* The signed integer type tags.
SignedIntegerTags == {"TYPE_TINYINT", "TYPE_SMALLINT", "TYPE_INT", "TYPE_BIGINT", "TYPE_LARGEINT"}

ArithmeticNames == {"negative", "positive", "radians", "degrees"}

\* The integer a converted to the integer item type `to`.
ConvertInt(type, a, to) ==
    IF type \in UnsignedTypes THEN ResizeUnsigned(a, Width(to)) ELSE Resize(a, Width(to))

\* -a on an integer: a is promoted, negated at the promoted width and
\* converted to the result item type.
NegateInt(type, a, to) ==
    Resize(Inc(Not(ConvertInt(type, a, IF Width(type) < 32 THEN "Int32" ELSE type))),
           Width(to))

\* -a overflows (undefined behaviour) on the minimum of a signed type that is
\* not promoted.
NegateOverflows(type, a) ==
    /\ type \in SignedTypes
    /\ PromotedWidth(Width(type)) = Width(type)
    /\ a = MinBits(Width(type))

\* NegativeImpl / PositiveImpl / RadiansImpl / DegreesImpl ::apply(a): the
\* set of values the call can return.  The products with pi stay terms.
UnaryApply(name_, type, a) ==
    LET to == ColumnItemType(ResultOfUnaryFunc(type))
    IN  CASE name_ = "negative" ->
                 IF type \in FloatTypes \cup DecimalTypes THEN {Neg(a)}
                 ELSE IF NegateOverflows(type, a) THEN ValuesOf(to)
                 ELSE {NegateInt(type, a, to)}
          [] name_ = "positive" ->
                 IF type \in FloatTypes \cup DecimalTypes THEN {a}
                 ELSE {ConvertInt(type, a, to)}
          [] name_ = "radians" -> {<<"a * PiImpl::value / 180.0", to, a>>}
          [] name_ = "degrees" -> {<<"a * 180.0 / PiImpl::value", to, a>>}

UtIdle ==
    /\ ut_name = "none"
    /\ ut_type = "none"
    /\ ut_value = <<>>
    /\ ut_result_type = "none"
    /\ ut_result = <<>>

UtInit ==
    /\ ut_name \in ArithmeticNames
    /\ ut_type \in SourceTypes
    /\ ut_value \in ValuesOf(ut_type)
    /\ ut_result_type = "none"
    /\ ut_result = <<>>

\* One call of negative, positive, radians or degrees on a value of type A:
\* the result type is ResultOfUnaryFunc<A>::ResultType and the result is
\* apply(a).
UnaryCall ==
    /\ ut_result_type = "none"
    /\ ut_result_type' = ResultOfUnaryFunc(ut_type)
    /\ ut_result' \in UnaryApply(ut_name, ut_type, ut_value)
    /\ UNCHANGED <<ut_name, ut_type, ut_value>>
    /\ UNCHANGED others_ut

NextUt == UnaryCall

\* C13 as stated: the mapping has an entry for every source type, maps every
\* integer source type (UInt8 included) to a signed integer type of matching
\* or larger width, and every float and decimal source type to the type of
\* the same precision.
C13_Original_IntegersToSigned ==
    ut_result_type # "none" =>
        /\ ut_result_type # "incomplete type"
        /\ ut_type \in SignedTypes \cup UnsignedTypes =>
              /\ ut_result_type \in SignedIntegerTags
              /\ Width(ColumnItemType(ut_result_type)) >= Width(ut_type)
        /\ ut_type \in FloatTypes \cup DecimalTypes =>
              ColumnItemType(ut_result_type) = ut_type

\* C13: the mapping has an entry for every source type; it maps every signed
\* integer source type to the signed integer type of the same width, the
\* unsigned 8-bit type to BOOLEAN (stored as that same unsigned 8-bit type),
\* and every float and decimal source type to the type of the same precision.
C13_ResultTypeOfSameWidth ==
    ut_result_type # "none" =>
        /\ ut_result_type # "incomplete type"
        /\ ut_type \in SignedTypes =>
              /\ ut_result_type \in SignedIntegerTags
              /\ Width(ColumnItemType(ut_result_type)) = Width(ut_type)
        /\ ut_type \in UnsignedTypes =>
              /\ ut_result_type = "TYPE_BOOLEAN"
              /\ ut_result_type \notin SignedIntegerTags
        /\ ut_type \in FloatTypes \cup DecimalTypes =>
              ColumnItemType(ut_result_type) = ut_type

\* negative has been called on the UInt8 value 1: the result type is BOOLEAN
\* and the result is the UInt8 255.
C13_Witness_UInt8ToBoolean ==
    /\ ut_name = "negative"
    /\ ut_type = "UInt8"
    /\ ut_value = IntBits(1, 8)
    /\ ut_result_type = "TYPE_BOOLEAN"
    /\ ut_result = IntBits(-1, 8)

-----------------------------------------------------------------------------
\* register_function_math and the function registry it fills.

MaxLookups == 2

\* Function::name of the function classes defined in this file.
NameOf(impl) ==
    CASE impl = "FunctionAcos" -> "acos"
      [] impl = "FunctionAcosh" -> "acosh"
      [] impl = "FunctionAsin" -> "asin"
      [] impl = "FunctionAsinh" -> "asinh"
      [] impl = "FunctionAtan" -> "atan"
      [] impl = "FunctionAtanh" -> "atanh"
      [] impl = "FunctionAtan2" -> "atan2"
      [] impl = "FunctionCos" -> "cos"
      [] impl = "FunctionCosh" -> "cosh"
      [] impl = "FunctionE" -> "e"
      [] impl = "FunctionLog" -> "log"
      [] impl = "FunctionPi" -> "pi"
      [] impl = "FunctionSign" -> "sign"
      [] impl = "FunctionAbs" -> "abs"
      [] impl = "FunctionNegative" -> "negative"
      [] impl = "FunctionPositive" -> "positive"
      [] impl = "FunctionSin" -> "sin"
      [] impl = "FunctionSinh" -> "sinh"
      [] impl = "FunctionSqrt" -> "sqrt"
      [] impl = "FunctionCbrt" -> "cbrt"
      [] impl = "FunctionTan" -> "tan"
      [] impl = "FunctionTanh" -> "tanh"
      [] impl = "FunctionCot" -> "cot"
      [] impl = "FunctionSec" -> "sec"
      [] impl = "FunctionCosec" -> "cosec"
      [] impl = "FunctionPow" -> "pow"
      [] impl = "FunctionExp" -> "exp"
      [] impl = "FunctionRadians" -> "radians"
      [] impl = "FunctionDegrees" -> "degrees"
      [] impl = "FunctionBin" -> "bin"
      [] impl = "FunctionNormalCdf" -> "normal_cdf"

\* Impl::name of the three instances of FunctionMathLog.
MathLogName(impl) ==
    CASE impl = "FunctionMathLog<ImplLn>" -> "ln"
      [] impl = "FunctionMathLog<ImplLog2>" -> "log2"
      [] impl = "FunctionMathLog<ImplLog10>" -> "log10"

\* factory.register_function<Function>() and factory.register_alias(name,
\* alias) as statements.
Fn(impl) == [op |-> "register_function", impl |-> impl, name |-> "", alias |-> ""]

Alias(name_, alias) == [op |-> "register_alias", impl |-> "", name |-> name_, alias |-> alias]

\* The statements of register_function_math, in order, in five runs.
Statements_Acos_E ==
    <<Fn("FunctionAcos"), Fn("FunctionAcosh"), Fn("FunctionAsin"), Fn("FunctionAsinh"),
      Fn("FunctionAtan"), Fn("FunctionAtanh"), Fn("FunctionAtan2"), Fn("FunctionCos"),
      Fn("FunctionCosh"), Fn("FunctionE")>>

Statements_Logs ==
    <<Alias("ln", "dlog1"), Fn("FunctionLog"), Fn("FunctionMathLog<ImplLn>"),
      Fn("FunctionMathLog<ImplLog2>"), Fn("FunctionMathLog<ImplLog10>"),
      Alias("log10", "dlog10")>>

Statements_Pi_Sqrt ==
    <<Fn("FunctionPi"), Fn("FunctionSign"), Fn("FunctionAbs"), Fn("FunctionNegative"),
      Fn("FunctionPositive"), Fn("FunctionSin"), Fn("FunctionSinh"), Fn("FunctionSqrt"),
      Alias("sqrt", "dsqrt")>>

Statements_Cbrt_Exp ==
    <<Fn("FunctionCbrt"), Fn("FunctionTan"), Fn("FunctionTanh"), Fn("FunctionCot"),
      Fn("FunctionSec"), Fn("FunctionCosec"), Fn("FunctionPow"), Alias("pow", "power"),
      Alias("pow", "dpow"), Alias("pow", "fpow"), Fn("FunctionExp"), Alias("exp", "dexp")>>

Statements_Radians_NormalCdf ==
    <<Fn("FunctionRadians"), Fn("FunctionDegrees"), Fn("FunctionBin"),
      Fn("FunctionNormalCdf")>>

register_function_math_aliases_reversed ==
    Statements_Acos_E
    \o <<Alias("dlog1", "ln"), Fn("FunctionLog"), Fn("FunctionMathLog<ImplLn>"),
         Fn("FunctionMathLog<ImplLog2>"), Fn("FunctionMathLog<ImplLog10>"),
         Alias("dlog10", "log10")>>
    \o Statements_Pi_Sqrt \o Statements_Cbrt_Exp \o Statements_Radians_NormalCdf

register_function_math_without_ln ==
    Statements_Acos_E
    \o <<Alias("ln", "dlog1"), Fn("FunctionLog"), Fn("FunctionMathLog<ImplLog2>"),
         Fn("FunctionMathLog<ImplLog10>"), Alias("log10", "dlog10")>>
    \o Statements_Pi_Sqrt \o Statements_Cbrt_Exp \o Statements_Radians_NormalCdf

register_function_math ==
    Statements_Acos_E \o Statements_Logs \o Statements_Pi_Sqrt
    \o Statements_Cbrt_Exp \o Statements_Radians_NormalCdf

\* The name a function class is registered under.
RegisteredName(impl) ==
    IF impl \in {"FunctionMathLog<ImplLn>", "FunctionMathLog<ImplLog2>",
                 "FunctionMathLog<ImplLog10>"}
    THEN MathLogName(impl)
    ELSE NameOf(impl)

\* map[key] = value
Put(map, key, value) == [k \in DOMAIN map \cup {key} |-> IF k = key THEN value ELSE map[k]]

\* SimpleFunctionFactory::get_function: an alias is replaced by the name it
\* is bound to, then the creator of that name is looked up.
get_function(creators, aliases, name_) ==
    LET key == IF name_ \in DOMAIN aliases THEN aliases[name_] ELSE name_
    IN  IF key \in DOMAIN creators THEN creators[key] ELSE "unknown function"

\* The names looked up: the aliases, their primary names, one more primary
\* name and a name that is never registered.
LookupNames ==
    {"power", "dpow", "fpow", "pow", "dsqrt", "sqrt", "dexp", "exp", "dlog10", "log10",
     "dlog1", "ln", "log2", "no_such_function"}

RegComplete == reg_pc > Len(register_function_math)

RegIdle ==
    /\ reg_pc = 0
    /\ function_creators = <<>>
    /\ function_alias = <<>>
    /\ reg_log = <<>>
    /\ reg_lookups = <<>>

\* A newly constructed factory, register_function_math about to run.
RegInit ==
    /\ reg_pc = 1
    /\ function_creators = <<>>
    /\ function_alias = <<>>
    /\ reg_log = <<>>
    /\ reg_lookups = <<>>

\* factory.register_function<Function>(): function_creators[name] = creator.
RegisterFunction ==
    /\ reg_pc \in 1..Len(register_function_math)
    /\ register_function_math[reg_pc].op = "register_function"
    /\ LET impl == register_function_math[reg_pc].impl
       IN  /\ function_creators' = Put(function_creators, RegisteredName(impl), impl)
           /\ reg_log' = Append(reg_log, <<"register_function", RegisteredName(impl)>>)
    /\ reg_pc' = reg_pc + 1
    /\ UNCHANGED <<function_alias, reg_lookups>>
    /\ UNCHANGED others_reg

\* factory.register_alias(name, alias): function_alias[alias] = name.
RegisterAlias ==
    /\ reg_pc \in 1..Len(register_function_math)
    /\ register_function_math[reg_pc].op = "register_alias"
    /\ function_alias' = Put(function_alias, register_function_math[reg_pc].alias,
                             register_function_math[reg_pc].name)
    /\ reg_log' = Append(reg_log, <<"register_alias", register_function_math[reg_pc].alias>>)
    /\ reg_pc' = reg_pc + 1
    /\ UNCHANGED <<function_creators, reg_lookups>>
    /\ UNCHANGED others_reg

\* A lookup by the planner, after registration has completed.
Lookup ==
    /\ RegComplete
    /\ Len(reg_lookups) < MaxLookups
    /\ \E n \in LookupNames :
          reg_lookups' = Append(reg_lookups,
              [name |-> n, impl |-> get_function(function_creators, function_alias, n)])
    /\ UNCHANGED <<reg_pc, function_creators, function_alias, reg_log>>
    /\ UNCHANGED others_reg

NextReg == RegisterFunction \/ RegisterAlias \/ Lookup

\* C14: once register_function_math has run, the aliases are exactly power,
\* dpow, fpow, dsqrt, dexp, dlog10 and dlog1; resolving any of them returns
\* the implementation registered under its primary name (pow, pow, pow, sqrt,
\* exp, log10, ln), and every lookup made by an alias returned what a lookup
\* by the primary name returns.
C14_AliasResolvesToPrimary ==
    RegComplete =>
        LET pairs == {<<"power", "pow">>, <<"dpow", "pow">>, <<"fpow", "pow">>,
                      <<"dsqrt", "sqrt">>, <<"dexp", "exp">>, <<"dlog10", "log10">>,
                      <<"dlog1", "ln">>}
        IN  /\ DOMAIN function_alias = {p[1] : p \in pairs}
            /\ \A p \in pairs :
                  /\ p[2] \in DOMAIN function_creators
                  /\ get_function(function_creators, function_alias, p[1])
                        = function_creators[p[2]]
                  /\ get_function(function_creators, function_alias, p[1])
                        = get_function(function_creators, function_alias, p[2])
                  /\ \A i \in DOMAIN reg_lookups :
                        reg_lookups[i].name = p[1]
                            => reg_lookups[i].impl = function_creators[p[2]]

\* Registration has completed and the planner has looked up fpow and then
\* pow: both lookups returned FunctionPow.
C14_Witness_FpowThenPow ==
    /\ RegComplete
    /\ Len(reg_lookups) = 2
    /\ reg_lookups[1] = [name |-> "fpow", impl |-> "FunctionPow"]
    /\ reg_lookups[2] = [name |-> "pow", impl |-> "FunctionPow"]

\* C16: throughout the registration sequence no primary name is registered
\* twice and no alias name is a primary name; once the sequence has
\* completed, every alias is bound to a registered primary name, and a lookup
\* of dlog1 finds the implementation of ln, never "unknown function",
\* although dlog1 was bound before ln was registered.
C16_AliasesBoundByCompletion ==
    /\ \A i, j \in DOMAIN reg_log :
          (i # j /\ reg_log[i][1] = "register_function" /\ reg_log[j][1] = "register_function")
              => reg_log[i][2] # reg_log[j][2]
    /\ DOMAIN function_alias \cap DOMAIN function_creators = {}
    /\ RegComplete =>
          /\ \A a \in DOMAIN function_alias : function_alias[a] \in DOMAIN function_creators
          /\ get_function(function_creators, function_alias, "dlog1")
                = "FunctionMathLog<ImplLn>"
          /\ \A i \in DOMAIN reg_lookups :
                reg_lookups[i].name = "dlog1" => reg_lookups[i].impl # "unknown function"

\* The alias dlog1 was registered before ln, the sequence has completed, and
\* a lookup of dlog1 has returned the implementation of ln.
C16_Witness_Dlog1AfterCompletion ==
    /\ RegComplete
    /\ \E i, j \in DOMAIN reg_log :
          /\ i < j
          /\ reg_log[i] = <<"register_alias", "dlog1">>
          /\ reg_log[j] = <<"register_function", "ln">>
    /\ Len(reg_lookups) >= 1
    /\ reg_lookups[1] = [name |-> "dlog1", impl |-> "FunctionMathLog<ImplLn>"]

-----------------------------------------------------------------------------
\* inverted_index_parser.cpp: the getters of the text-analysis properties.
\* The keys and the constants are defined in inverted_index_parser.h; each is
\* written here as the string of its identifier.

\* The value of a key that is not in the map (never stored in properties).
Absent == "<absent>"

PropertyKeys ==
    <<"INVERTED_INDEX_PARSER_KEY", "INVERTED_INDEX_PARSER_MODE_KEY",
      "INVERTED_INDEX_PARSER_PHRASE_SUPPORT_KEY", "INVERTED_INDEX_PARSER_IGNORE_ABOVE_KEY",
      "INVERTED_INDEX_PARSER_STOPWORDS_KEY", "INVERTED_INDEX_PARSER_DICT_COMPRESSION_KEY",
      "INVERTED_INDEX_CUSTOM_ANALYZER_KEY">>

\* What a caller does with the i-th key: leaves it out, or stores a value.
\* For the parser the values are the IK parser, the IK parser in upper case
\* and another parser; for the mode two modes; for the other keys one value.
SuppliedValues(i) ==
    CASE i = 1 -> {Absent, "INVERTED_INDEX_PARSER_IK", "to_upper(INVERTED_INDEX_PARSER_IK)",
                   "INVERTED_INDEX_PARSER_ENGLISH"}
      [] i = 2 -> {Absent, "INVERTED_INDEX_PARSER_FINE_GRANULARITY",
                   "INVERTED_INDEX_PARSER_SMART"}
      [] OTHER -> {Absent, "supplied value"}

\* const std::map<std::string, std::string>& properties
PropertyMaps ==
    {[k \in {PropertyKeys[i] : i \in {j \in 1..7 : t[j] # Absent}} |->
         t[CHOOSE i \in 1..7 : PropertyKeys[i] = k]] :
        t \in SuppliedValues(1) \X SuppliedValues(2) \X SuppliedValues(3)
                \X SuppliedValues(4) \X SuppliedValues(5) \X SuppliedValues(6)
                \X SuppliedValues(7)}

\* properties.find(key) != properties.end() ? properties.at(key) : default
ValueOrDefault(props, key, default) ==
    IF key \in DOMAIN props THEN props[key] ELSE default

get_parser_string_from_properties(props) ==
    ValueOrDefault(props, "INVERTED_INDEX_PARSER_KEY", "INVERTED_INDEX_PARSER_NONE")

get_parser_mode_string_from_properties_always_coarse(props) ==
    ValueOrDefault(props, "INVERTED_INDEX_PARSER_MODE_KEY",
                   "INVERTED_INDEX_PARSER_COARSE_GRANULARITY")

get_parser_mode_string_from_properties(props) ==
    IF "INVERTED_INDEX_PARSER_MODE_KEY" \in DOMAIN props
    THEN props["INVERTED_INDEX_PARSER_MODE_KEY"]
    ELSE IF /\ "INVERTED_INDEX_PARSER_KEY" \in DOMAIN props
            /\ props["INVERTED_INDEX_PARSER_KEY"] = "INVERTED_INDEX_PARSER_IK"
         THEN "INVERTED_INDEX_PARSER_SMART"
         ELSE "INVERTED_INDEX_PARSER_COARSE_GRANULARITY"

get_parser_phrase_support_string_from_properties(props) ==
    ValueOrDefault(props, "INVERTED_INDEX_PARSER_PHRASE_SUPPORT_KEY",
                   "INVERTED_INDEX_PARSER_PHRASE_SUPPORT_NO")

get_parser_ignore_above_value_from_properties(props) ==
    ValueOrDefault(props, "INVERTED_INDEX_PARSER_IGNORE_ABOVE_KEY",
                   "INVERTED_INDEX_PARSER_IGNORE_ABOVE_VALUE")

\* dbug is TRUE when the debug point
\* "inverted_index_parser.get_parser_stopwords_from_properties" is active.
get_parser_stopwords_from_properties(props, dbug) ==
    IF dbug THEN ""
    ELSE ValueOrDefault(props, "INVERTED_INDEX_PARSER_STOPWORDS_KEY", "")

get_parser_dict_compression_from_properties(props) ==
    ValueOrDefault(props, "INVERTED_INDEX_PARSER_DICT_COMPRESSION_KEY", "")

get_custom_analyzer_string_from_properties(props) ==
    ValueOrDefault(props, "INVERTED_INDEX_CUSTOM_ANALYZER_KEY", "")

PpIdle ==
    /\ properties = <<>>
    /\ debug_point = FALSE
    /\ pp_getter = "none"
    /\ pp_result = ""

PpInit ==
    /\ properties \in PropertyMaps
    /\ debug_point \in BOOLEAN
    /\ pp_getter = "none"
    /\ pp_result = ""

\* The result of a getter called on the properties.
Returned(getter, value) ==
    /\ pp_getter' = getter
    /\ pp_result' = value
    /\ UNCHANGED <<properties, debug_point>>
    /\ UNCHANGED others_pp

GetParser == Returned("parser", get_parser_string_from_properties(properties))

GetParserMode == Returned("parser_mode", get_parser_mode_string_from_properties(properties))

GetPhraseSupport ==
    Returned("phrase_support", get_parser_phrase_support_string_from_properties(properties))

GetIgnoreAbove ==
    Returned("ignore_above", get_parser_ignore_above_value_from_properties(properties))

GetStopwords ==
    Returned("stopwords", get_parser_stopwords_from_properties(properties, debug_point))

GetDictCompression ==
    Returned("dict_compression", get_parser_dict_compression_from_properties(properties))

GetCustomAnalyzer ==
    Returned("custom_analyzer", get_custom_analyzer_string_from_properties(properties))

NextPp ==
    \/ GetParser
    \/ GetParserMode
    \/ GetPhraseSupport
    \/ GetIgnoreAbove
    \/ GetStopwords
    \/ GetDictCompression
    \/ GetCustomAnalyzer

\* C15 as stated: every getter returns the stored value when its key is
\* present and its default when the key is absent (the mode default being
\* smart exactly when the parser key is present and equal to the IK parser).
C15_Original_ValueWheneverPresent ==
    pp_getter # "none" =>
        LET key == CASE pp_getter = "parser" -> PropertyKeys[1]
                     [] pp_getter = "parser_mode" -> PropertyKeys[2]
                     [] pp_getter = "phrase_support" -> PropertyKeys[3]
                     [] pp_getter = "ignore_above" -> PropertyKeys[4]
                     [] pp_getter = "stopwords" -> PropertyKeys[5]
                     [] pp_getter = "dict_compression" -> PropertyKeys[6]
                     [] pp_getter = "custom_analyzer" -> PropertyKeys[7]
            ik == /\ PropertyKeys[1] \in DOMAIN properties
                  /\ properties[PropertyKeys[1]] = "INVERTED_INDEX_PARSER_IK"
            default ==
                   CASE pp_getter = "parser" -> "INVERTED_INDEX_PARSER_NONE"
                     [] pp_getter = "parser_mode" ->
                            IF ik THEN "INVERTED_INDEX_PARSER_SMART"
                            ELSE "INVERTED_INDEX_PARSER_COARSE_GRANULARITY"
                     [] pp_getter = "phrase_support" -> "INVERTED_INDEX_PARSER_PHRASE_SUPPORT_NO"
                     [] pp_getter = "ignore_above" -> "INVERTED_INDEX_PARSER_IGNORE_ABOVE_VALUE"
                     [] OTHER -> ""
        IN  pp_result = (IF key \in DOMAIN properties THEN properties[key] ELSE default)

\* C15: every getter returns the stored value when its key is present and its
\* default when the key is absent (parser: none; phrase support: no;
\* ignore-above: its default constant; stop words, dictionary compression and
\* custom analyzer: the empty string; mode: smart when the parser key is
\* present and equal to the IK parser, else coarse granularity; a supplied
\* mode is returned unchanged whatever the parser), except that the stop-words
\* getter returns the empty string, whatever the map holds, while its debug
\* point is active.
C15_ValueUnlessDebugPoint ==
    pp_getter # "none" =>
        LET key == CASE pp_getter = "parser" -> PropertyKeys[1]
                     [] pp_getter = "parser_mode" -> PropertyKeys[2]
                     [] pp_getter = "phrase_support" -> PropertyKeys[3]
                     [] pp_getter = "ignore_above" -> PropertyKeys[4]
                     [] pp_getter = "stopwords" -> PropertyKeys[5]
                     [] pp_getter = "dict_compression" -> PropertyKeys[6]
                     [] pp_getter = "custom_analyzer" -> PropertyKeys[7]
            ik == /\ PropertyKeys[1] \in DOMAIN properties
                  /\ properties[PropertyKeys[1]] = "INVERTED_INDEX_PARSER_IK"
            default ==
                   CASE pp_getter = "parser" -> "INVERTED_INDEX_PARSER_NONE"
                     [] pp_getter = "parser_mode" ->
                            IF ik THEN "INVERTED_INDEX_PARSER_SMART"
                            ELSE "INVERTED_INDEX_PARSER_COARSE_GRANULARITY"
                     [] pp_getter = "phrase_support" -> "INVERTED_INDEX_PARSER_PHRASE_SUPPORT_NO"
                     [] pp_getter = "ignore_above" -> "INVERTED_INDEX_PARSER_IGNORE_ABOVE_VALUE"
                     [] OTHER -> ""
        IN  IF pp_getter = "stopwords" /\ debug_point
            THEN pp_result = ""
            ELSE pp_result = (IF key \in DOMAIN properties THEN properties[key] ELSE default)

\* The stop-words getter has run with its debug point active on a map that
\* holds stop words (and the IK parser, without a mode) and has returned the
\* empty string.
C15_Witness_StopwordsDebugPoint ==
    /\ pp_getter = "stopwords"
    /\ debug_point
    /\ DOMAIN properties = {PropertyKeys[i] : i \in {1, 5}}
    /\ properties["INVERTED_INDEX_PARSER_KEY"] = "INVERTED_INDEX_PARSER_IK"
    /\ properties["INVERTED_INDEX_PARSER_STOPWORDS_KEY"] = "supplied value"
    /\ pp_result = ""

-----------------------------------------------------------------------------
\* The specifications.

InitSin ==
    /\ SinInit
    /\ LogIdle
    /\ CdfIdle
    /\ UnIdle
    /\ BinIdle
    /\ SgIdle
    /\ AbIdle
    /\ UtIdle
    /\ RegIdle
    /\ PpIdle

SpecSin == InitSin /\ [][NextSin]_vars

InitLog ==
    /\ LogInit
    /\ SinIdle
    /\ CdfIdle
    /\ UnIdle
    /\ BinIdle
    /\ SgIdle
    /\ AbIdle
    /\ UtIdle
    /\ RegIdle
    /\ PpIdle

SpecLog == InitLog /\ [][NextLog]_vars

InitCdf ==
    /\ CdfInit
    /\ SinIdle
    /\ LogIdle
    /\ UnIdle
    /\ BinIdle
    /\ SgIdle
    /\ AbIdle
    /\ UtIdle
    /\ RegIdle
    /\ PpIdle

SpecCdf == InitCdf /\ [][NextCdf]_vars

InitUn ==
    /\ UnInit
    /\ SinIdle
    /\ LogIdle
    /\ CdfIdle
    /\ BinIdle
    /\ SgIdle
    /\ AbIdle
    /\ UtIdle
    /\ RegIdle
    /\ PpIdle

SpecUn == InitUn /\ [][NextUn]_vars

InitBin ==
    /\ BinInit
    /\ SinIdle
    /\ LogIdle
    /\ CdfIdle
    /\ UnIdle
    /\ SgIdle
    /\ AbIdle
    /\ UtIdle
    /\ RegIdle
    /\ PpIdle

SpecBin == InitBin /\ [][NextBin]_vars

InitSg ==
    /\ SgInit
    /\ SinIdle
    /\ LogIdle
    /\ CdfIdle
    /\ UnIdle
    /\ BinIdle
    /\ AbIdle
    /\ UtIdle
    /\ RegIdle
    /\ PpIdle

SpecSg == InitSg /\ [][NextSg]_vars

InitAb ==
    /\ AbInit
    /\ SinIdle
    /\ LogIdle
    /\ CdfIdle
    /\ UnIdle
    /\ BinIdle
    /\ SgIdle
    /\ UtIdle
    /\ RegIdle
    /\ PpIdle

SpecAb == InitAb /\ [][NextAb]_vars

InitUt ==
    /\ UtInit
    /\ SinIdle
    /\ LogIdle
    /\ CdfIdle
    /\ UnIdle
    /\ BinIdle
    /\ SgIdle
    /\ AbIdle
    /\ RegIdle
    /\ PpIdle

SpecUt == InitUt /\ [][NextUt]_vars

InitReg ==
    /\ RegInit
    /\ SinIdle
    /\ LogIdle
    /\ CdfIdle
    /\ UnIdle
    /\ BinIdle
    /\ SgIdle
    /\ AbIdle
    /\ UtIdle
    /\ PpIdle

SpecReg == InitReg /\ [][NextReg]_vars

InitPp ==
    /\ PpInit
    /\ SinIdle
    /\ LogIdle
    /\ CdfIdle
    /\ UnIdle
    /\ BinIdle
    /\ SgIdle
    /\ AbIdle
    /\ UtIdle
    /\ RegIdle

SpecPp == InitPp /\ [][NextPp]_vars

====
